---------------------------- MODULE Spec2Model ----------------------------
(***************************************************************************)
(* Vira Engine: the multi-source evidence pipeline of src/app/api.py       *)
(* (analyze_asset) and src/app/main.py (get_asset_data,                    *)
(* run_llm_investigation, perform_asset_analysis).                         *)
(*                                                                         *)
(* Texts are sequences of symbols.  A symbol is a TLA+ string: either one  *)
(* character of data ("a", "A", "b") or one fixed chunk of literal text    *)
(* of the program ("Status is '").  Concatenation is \o and Python's       *)
(* `s in t` on strings is IsSubstring.                                     *)
(*                                                                         *)
(* The files the program reads (metadata, registry, news feed, deed) are   *)
(* external.  Their content is a state variable that is "unset" until the  *)
(* program reads the file for the first time in a behaviour; the first     *)
(* read fixes the content, every later read sees the same content.         *)
(***************************************************************************)
EXTENDS Integers, Sequences, FiniteSets, TLC

\* ------------------------------------------------------------------ bounds
MaxRows == 2
MaxAlerts == 3

\* ------------------------------------------------------------------- texts
IsSubstring(s, t) ==
    \E i \in 0..(Len(t) - Len(s)) : SubSeq(t, i + 1, i + Len(s)) = s

Range(s) == {s[i] : i \in DOMAIN s}

\* All sequences over S of length at most n.
SeqUpTo(S, n) == UNION {[1..k -> S] : k \in 0..n}

\* Python's None where a text is expected (dict.get without a default).
None == <<"<None>">>

\* The float NaN pandas puts in a cell it reads as missing.
NaN == <<"<NaN>">>

\* str(v) as an f-string renders it: NaN prints as nan, a text as itself.
Str(v) == IF v = NaN THEN <<"nan">> ELSE v

\* bool(v) for a cell value: NaN is a non-zero float (truthy), a text is
\* truthy when it is not empty.
Truthy(v) == IF v = NaN THEN TRUE ELSE v # <<>>

NumStr(n) == <<ToString(n)>>

RECURSIVE Join(_, _)
\* sep.join(texts)
Join(texts, sep) ==
    IF texts = <<>> THEN <<>>
    ELSE IF Len(texts) = 1 THEN texts[1]
    ELSE texts[1] \o sep \o Join(Tail(texts), sep)

\* ---------------------------------------------------------------- runs
Runs == {"r1", "r2"}
TokenOf == [r \in Runs |-> IF r = "r1" THEN <<"NGA-LAG-001">> ELSE <<"NGA-AWK-001">>]
TokenIds == {TokenOf[r] : r \in Runs}

\* ------------------------------------------------------------ metadata
RegistryKey == <<"K1">>
OtherKey == <<"K2">>

HumanReadableIdTrait == <<"Human-Readable ID">>
DeedTrait == <<"Deed of Assignment ", "Path">>
NewsTrait == <<"Public News API ", "Path">>
RegistryTrait == <<"Land Registry File ", "Path">>
KeyTrait == <<"Registry Search Key">>
UnknownTrait == <<"Survey Plan ", "Path">>

Attr(trait_type, value) == [trait_type |-> trait_type, value |-> value]

\* The registry search key of a token: each asset has its own.
KeyOf(token) == IF token = <<"NGA-LAG-001">> THEN RegistryKey ELSE OtherKey

\* The attribute list scripts/generate_asset_docs.py writes for a token.
FullAttributes(token) ==
    << Attr(HumanReadableIdTrait, token),
       Attr(DeedTrait, token \o <<"_Deed_of_Assignment.txt">>),
       Attr(NewsTrait, <<"alerts.json">>),
       Attr(RegistryTrait, <<"registry.csv">>),
       Attr(KeyTrait, KeyOf(token)) >>

Without(s, i) == SubSeq(s, 1, i - 1) \o SubSeq(s, i + 1, Len(s))

JsonDoc(attributes) == [tag |-> "json", attributes |-> attributes]

\* What the metadata store can hold for a token: no file, a file that is
\* not JSON, or a JSON document with an attribute list (complete, with an
\* unknown attribute, with an attribute that has no trait_type, with one
\* attribute missing, or empty).
MetadataDocs(token) ==
    { [tag |-> "absent"], [tag |-> "corrupt"],
      JsonDoc(FullAttributes(token)),
      JsonDoc(FullAttributes(token) \o <<Attr(UnknownTrait, <<"plan.pdf">>)>>),
      JsonDoc(FullAttributes(token) \o <<Attr(None, <<"x">>)>>),
      JsonDoc(<<>>) }
    \cup {JsonDoc(Without(FullAttributes(token), i)) : i \in 1..5}

AbsPath(value) == <<"/base/">> \o value

Put(info, k, v) == [x \in (DOMAIN info) \cup {k} |-> IF x = k THEN v ELSE info[x]]

EmptyDict == [x \in {} |-> <<>>]

\* One iteration of the loop of get_asset_data (main.py:53-60).
ApplyAttribute(info, attribute) ==
    LET trait_type == attribute.trait_type
        value == IF IsSubstring(<<"Path">>, trait_type)
                 THEN AbsPath(attribute.value) ELSE attribute.value
    IN  IF IsSubstring(HumanReadableIdTrait, trait_type) THEN Put(info, "token_id", value)
        ELSE IF IsSubstring(DeedTrait, trait_type) THEN Put(info, "deed_path", value)
        ELSE IF IsSubstring(NewsTrait, trait_type) THEN Put(info, "news_path", value)
        ELSE IF IsSubstring(RegistryTrait, trait_type) THEN Put(info, "registry_path", value)
        ELSE IF IsSubstring(KeyTrait, trait_type) THEN Put(info, "registry_key", value)
        ELSE info

RECURSIVE ApplyAttributes(_, _)
ApplyAttributes(info, attributes) ==
    IF attributes = <<>> THEN info
    ELSE ApplyAttributes(ApplyAttribute(info, Head(attributes)), Tail(attributes))

\* get_asset_data(token_id) on the stored document: None, a TypeError out
\* of the loop ("Path" in None), or the asset_info dict.
get_asset_data(doc) ==
    IF doc.tag \in {"absent", "corrupt"} THEN [tag |-> "None"]
    ELSE IF \E i \in DOMAIN doc.attributes : doc.attributes[i].trait_type = None
         THEN [tag |-> "raise"]
    ELSE [tag |-> "dict", info |-> ApplyAttributes(EmptyDict, doc.attributes)]

\* `not asset_data`: None or an empty dict.
IsFalsyAssetData(res) == res.tag = "None" \/ (res.tag = "dict" /\ DOMAIN res.info = {})

\* ------------------------------------------------------------- files
Unset == [tag |-> "unset"]
Unreadable == [tag |-> "unreadable"]

\* The contents a read of `file` can see: anything of `contents` on the
\* first read, the content already seen afterwards.
Observed(file, contents) == IF file = Unset THEN contents ELSE {file}

\* --------------------------------------------------------- land registry
RegistryColumns == {"c_of_o_id", "owner_name", "status"}
\* The header scripts/setup_project_data.py writes.
LegacyColumns == {"Certificate_of_Occupancy_ID", "Owner", "Status"}

Row(key, status, owner) == [c_of_o_id |-> key, status |-> status, owner_name |-> owner]

\* Rows of the registry file, as written in the file.
RowKinds ==
    { Row(RegistryKey, <<"Verified">>, <<"a", "b">>),
      Row(RegistryKey, <<"verified">>, <<"a">>),
      Row(RegistryKey, <<"N/A">>, <<>>),
      Row(OtherKey, <<"Verified">>, <<"b">>) }

Csv(columns, rows) == [tag |-> "csv", columns |-> columns, rows |-> rows]

RegistryContents ==
    {Unreadable, Csv(LegacyColumns, <<>>)}
    \cup {Csv(RegistryColumns, rows) : rows \in SeqUpTo(RowKinds, MaxRows)}

\* Cells pandas.read_csv reads as missing (a subset of its default
\* na_values: the empty cell and one NA token).
NaValues == {<<>>, <<"N/A">>}

ReadCsvCell(cell) == IF cell \in NaValues THEN NaN ELSE cell

\* pd.read_csv(path): the rows with every cell converted.
read_csv(content) ==
    [i \in DOMAIN content.rows |->
        [c \in DOMAIN content.rows[i] |-> ReadCsvCell(content.rows[i][c])]]

Evidence(step, result, details) == [step |-> step, result |-> result, details |-> details]

RegistryStep == "Land Registry Verification"
NewsStep == "Public News & Gazette Scan"
ReviewStep == "Legal Document Review (AI)"
IngestStep == "Initial Data Ingestion"

\* The exception, if any, that the body of the registry try block raises
\* (api.py:99-110) on asset_data `info` and registry file `content`;
\* <<>> when it raises none.
RegistryError(info, content) ==
    IF "registry_path" \notin DOMAIN info THEN <<"KeyError: 'registry_path'">>
    ELSE IF content = Unreadable THEN <<"[Errno 2] No such file or directory">>
    ELSE IF "c_of_o_id" \notin content.columns THEN <<"KeyError: 'c_of_o_id'">>
    ELSE IF "registry_key" \notin DOMAIN info THEN <<"KeyError: 'registry_key'">>
    ELSE IF SelectSeq(read_csv(content), LAMBDA row : row.c_of_o_id = info["registry_key"]) = <<>>
         THEN <<"Asset not found in registry.">>
    ELSE <<>>

\* registry_df[registry_df['c_of_o_id'] == asset_data['registry_key']]
AssetRows(info, content) ==
    SelectSeq(read_csv(content), LAMBDA row : row.c_of_o_id = info["registry_key"])

RegistryResultOf(status) == IF status = <<"Verified">> THEN "Success" ELSE "Failure"

\* A verifier that records the failure and lets the run go on; C13 fails
\* for it.
RegistryVerifierNoAbort(info, content) ==
    LET err == RegistryError(info, content) IN
    IF err # <<>>
    THEN [raised |-> FALSE, owner_name |-> None,
          evidence |-> Evidence(RegistryStep, "Failure",
                          <<"Could not verify asset in land registry: ">> \o err)]
    ELSE LET asset_row == AssetRows(info, content)
         IN  [raised |-> FALSE, owner_name |-> asset_row[1].owner_name,
              evidence |-> Evidence(RegistryStep, RegistryResultOf(asset_row[1].status),
                              <<"Asset with C-of-O ID '">> \o info["registry_key"]
                              \o <<"' found. Status is '">> \o Str(asset_row[1].status)
                              \o <<"'.">>)]

\* Step 2a of analyze_asset (api.py:98-117): the evidence record appended,
\* the owner name extracted, and whether the step raised (HTTP 404).
RegistryVerifier(info, content) ==
    LET err == RegistryError(info, content) IN
    IF err # <<>>
    THEN [raised |-> TRUE, owner_name |-> None,
          evidence |-> Evidence(RegistryStep, "Failure",
                          <<"Could not verify asset in land registry: ">> \o err)]
    ELSE LET asset_row == AssetRows(info, content)
             status == asset_row[1].status
         IN  [raised |-> FALSE, owner_name |-> asset_row[1].owner_name,
              evidence |-> Evidence(RegistryStep, RegistryResultOf(status),
                              <<"Asset with C-of-O ID '">> \o info["registry_key"]
                              \o <<"' found. Status is '">> \o Str(status) \o <<"'.">>)]

\* ------------------------------------------------------------- news feed
Alert(headline, summary) == [headline |-> headline, summary |-> summary]

\* Alerts of the feed; an alert may lack its headline or its summary.
AlertKinds ==
    { Alert(<<"h1">>, <<"x", "a", "b">>),
      Alert(<<"h2">>, <<"a">>),
      [summary |-> <<"A", "b">>],
      [headline |-> <<"h3">>],
      Alert(<<"h4">>, <<>>) }

Feed(alerts) == [tag |-> "json", alerts |-> alerts]

NewsContents == {Unreadable} \cup {Feed(alerts) : alerts \in SeqUpTo(AlertKinds, MaxAlerts)}

\* alert.get(field, default)
Get(alert, field, default) == IF field \in DOMAIN alert THEN alert[field] ELSE default

\* `owner_name and owner_name in alert.get('summary', '')`
Matches(owner_name, alert) ==
    Truthy(owner_name) /\ IsSubstring(owner_name, Get(alert, "summary", <<>>))

\* The filter raises TypeError when `in` is evaluated with a float on the
\* left: a truthy non-text owner name and at least one alert.
MatchRaises(owner_name, alerts) == owner_name = NaN /\ alerts # <<>>

\* A scanner that collects the matching alerts newest-first; C9 fails for it.
RelevantNewsReversed(owner_name, alerts) ==
    LET hits == SelectSeq(alerts, LAMBDA alert : Matches(owner_name, alert))
    IN  [i \in DOMAIN hits |-> hits[Len(hits) + 1 - i]]

RelevantNews(owner_name, alerts) == SelectSeq(alerts, LAMBDA alert : Matches(owner_name, alert))

Headlines(relevant_news) ==
    [i \in DOMAIN relevant_news |-> Get(relevant_news[i], "headline", <<"N/A">>)]

HeadlineSeparator == <<", ">>

NewsError(info, content, owner_name) ==
    IF "news_path" \notin DOMAIN info THEN <<"KeyError: 'news_path'">>
    ELSE IF content = Unreadable THEN <<"[Errno 2] No such file or directory">>
    ELSE IF MatchRaises(owner_name, content.alerts)
         THEN <<"'in <string>' requires string as left operand, not float">>
    ELSE <<>>

\* Step 2b of analyze_asset (api.py:119-142).
NewsScanner(info, content, owner_name) ==
    LET err == NewsError(info, content, owner_name) IN
    IF err # <<>>
    THEN [raised |-> TRUE,
          evidence |-> Evidence(NewsStep, "Failure", <<"Could not scan news records: ">> \o err)]
    ELSE LET relevant_news == RelevantNews(owner_name, content.alerts) IN
         IF relevant_news # <<>>
         THEN [raised |-> FALSE,
               evidence |-> Evidence(NewsStep, "Failure",
                   <<"Found ">> \o NumStr(Len(relevant_news))
                   \o <<" adverse news record(s) concerning owner '">> \o Str(owner_name)
                   \o <<"'. Headlines: ">>
                   \o Join(Headlines(relevant_news), HeadlineSeparator))]
         ELSE [raised |-> FALSE,
               evidence |-> Evidence(NewsStep, "Success",
                   <<"Scanned public records. No adverse news found concerning owner '">>
                   \o Str(owner_name) \o <<"'.">>)]

\* ------------------------------------------------------- JSON values
\* What json.loads returns: a dict (a function from keys to values), a
\* number, a string (a text), a list of strings, a bool or None.
JDict(d) == [t |-> "dict", d |-> d]
JNum(n) == [t |-> "int", n |-> n]
JStr(s) == [t |-> "str", s |-> s]
JList(l) == [t |-> "list", l |-> l]
JNull == [t |-> "null"]

RiskKey == "potential_risk_type"
NoRisk == "No Risk Found"
\* The values the system instruction allows (main.py:108).
Categories == {"Title Dispute", "Financial Pledge", "Government Revocation", NoRisk}

Verdict(category) == JDict([k \in {RiskKey} |-> category])

\* bool(v)
PyTruthy(v) ==
    CASE v.t = "dict" -> DOMAIN v.d # {}
      [] v.t = "int" -> v.n # 0
      [] v.t = "str" -> v.s # <<>>
      [] v.t = "list" -> v.l # <<>>
      [] OTHER -> FALSE

\* `key in v` raises TypeError for a number (and for None).
InRaises(v) == v.t \in {"int", "null"}

\* `key in v` where it does not raise: a key of a dict, a substring of a
\* string, an element of a list.
PyIn(key, v) ==
    CASE v.t = "dict" -> key \in DOMAIN v.d
      [] v.t = "str" -> IsSubstring(<<key>>, v.s)
      [] v.t = "list" -> <<key>> \in Range(v.l)
      [] OTHER -> FALSE

\* v[key] and v.get(key) raise on anything that is not a dict.
IndexRaises(v) == v.t # "dict"

\* ------------------------------------------------- text-generation service
JsonText(v) == [k |-> "json", v |-> v]
GarbageText == [k |-> "garbage"]
EmptyText == [k |-> "empty"]

\* A completion: its body, between ```json fences or not.
Completion(fenced, body) == [k |-> "text", fenced |-> fenced, body |-> body]
ServiceError == [k |-> "error"]
NotCalled == [k |-> "not called"]

JsonValues ==
    {Verdict(c) : c \in Categories}
    \cup { Verdict("Zoning Violation"),
           JDict([k \in {} |-> ""]),
           JDict([k \in {"comment"} |-> "n/a"]),
           JDict([k \in {"error", "message"} |-> "Asset not found."]),
           JNull, JNum(5), JList(<<>>),
           JStr(<<"see ", RiskKey>>), JList(<<<<RiskKey>>>>) }

\* What chat.send_message(prompt) / response.text can do (main.py:132-134).
ServiceOutcomes ==
    {ServiceError, Completion(FALSE, GarbageText), Completion(FALSE, EmptyText),
     Completion(TRUE, JsonText(Verdict("Title Dispute")))}
    \cup {Completion(FALSE, JsonText(v)) : v \in JsonValues}

\* response_text.replace("```json", "").replace("```", "").strip()
StripFences(text) == [text EXCEPT !.fenced = FALSE]

\* json.loads raises on anything that is not one JSON value.
JsonLoadsRaises(text) == text.fenced \/ text.body.k # "json"

JsonLoads(text) == text.body.v

\* main.py:132-144: the result of the chat session on the service's
\* outcome: the parsed value, or None on any exception.
ParseOutcome(outcome) ==
    IF outcome = ServiceError THEN JNull
    ELSE LET json_text == StripFences(outcome) IN
         IF JsonLoadsRaises(json_text) THEN JNull ELSE JsonLoads(json_text)

\* ------------------------------------------------- run_llm_investigation
DeedText == [tag |-> "text", text |-> <<"DEED OF ASSIGNMENT">>]
DeedContents == {Unreadable, DeedText}

\* main.py:83-86: the deed is opened when the key is configured, the asset
\* resolves to a non-empty dict and the dict has a deed path.
NeedsDeed(key_ok, doc) ==
    /\ key_ok
    /\ get_asset_data(doc).tag = "dict"
    /\ "deed_path" \in DOMAIN get_asset_data(doc).info

\* main.py:87: the registry is read after the deed was read.
NeedsRegistry(key_ok, doc, deed) ==
    /\ NeedsDeed(key_ok, doc)
    /\ deed # Unreadable
    /\ "registry_path" \in DOMAIN get_asset_data(doc).info

\* main.py:88-90: the news feed is opened after the registry lookup.
NeedsNews(key_ok, doc, deed, registry) ==
    /\ NeedsRegistry(key_ok, doc, deed)
    /\ registry # Unreadable
    /\ "c_of_o_id" \in registry.columns
    /\ "registry_key" \in DOMAIN get_asset_data(doc).info
    /\ "news_path" \in DOMAIN get_asset_data(doc).info

\* A reviewer that never looks the owner up; C21 fails for it.
LlmOwnerNameEmpty(doc, registry) == <<>>

\* main.py:91
LlmOwnerName(doc, registry) ==
    LET asset_row == AssetRows(get_asset_data(doc).info, registry)
    IN  IF asset_row # <<>> THEN asset_row[1].owner_name ELSE <<>>

\* main.py:92-132: the chat session is reached when every source was read
\* and the news filter did not raise.
CallsService(key_ok, doc, deed, registry, news) ==
    /\ NeedsNews(key_ok, doc, deed, registry)
    /\ news # Unreadable
    /\ ~MatchRaises(LlmOwnerName(doc, registry), news.alerts)

\* The payload of the one message sent (main.py:118-129).
LlmPrompt(doc, deed, registry, news) ==
    LET info == get_asset_data(doc).info
        asset_row == AssetRows(info, registry)
        owner_name == LlmOwnerName(doc, registry)
        relevant_news == RelevantNews(owner_name, news.alerts)
    IN  [k |-> "prompt",
         deed_content |-> deed.text,
         registry_content |-> IF asset_row # <<>> THEN asset_row
                              ELSE <<[sentinel |-> "Asset not found in registry."]>>,
         owner_name |-> owner_name,
         news_content |-> IF relevant_news # <<>> THEN relevant_news
                          ELSE <<[sentinel |-> "No relevant news found."]>>]

\* An investigator that lets the exception of a failed service call out;
\* C18 fails for it.
InvestigationUncaught(key_ok, doc, deed, registry, news, outcome) ==
    IF key_ok /\ get_asset_data(doc).tag = "raise"
    THEN [raised |-> TRUE, value |-> JNull]
    ELSE IF CallsService(key_ok, doc, deed, registry, news)
    THEN [raised |-> outcome = ServiceError, value |-> ParseOutcome(outcome)]
    ELSE [raised |-> FALSE, value |-> JNull]

\* run_llm_investigation(token_id) (main.py:67-144) on the configuration,
\* the sources it reads and the outcome of the service call: whether it
\* raises (get_asset_data at line 83 is outside every try block) and the
\* value it returns (None as JNull).
run_llm_investigation(key_ok, doc, deed, registry, news, outcome) ==
    IF key_ok /\ get_asset_data(doc).tag = "raise"
    THEN [raised |-> TRUE, value |-> JNull]
    ELSE IF CallsService(key_ok, doc, deed, registry, news)
    THEN [raised |-> FALSE, value |-> ParseOutcome(outcome)]
    ELSE [raised |-> FALSE, value |-> JNull]

\* ------------------------------------------------------------- inputs
\* The families of inputs a behaviour draws its files from: "pipeline"
\* varies every source a little, "registry" varies the registry file up to
\* MaxRows rows, "news" varies the feed up to MaxAlerts alerts.
Docs(family, token) ==
    CASE family = "pipeline" -> MetadataDocs(token)
      [] family = "concurrent" -> {[tag |-> "absent"], JsonDoc(FullAttributes(token))}
      [] OTHER -> {JsonDoc(FullAttributes(token))}

Registries(family) ==
    CASE family = "registry" -> RegistryContents
      [] family = "news" ->
            {Csv(RegistryColumns, <<row>>) : row \in {x \in RowKinds : x.c_of_o_id = RegistryKey}}
      [] family = "replace" ->
            {Unreadable,
             Csv(RegistryColumns, <<Row(RegistryKey, <<"Verified">>, <<"a", "b">>)>>),
             Csv(RegistryColumns, <<Row(RegistryKey, <<"verified">>, <<"a">>)>>),
             Csv(RegistryColumns, <<Row(OtherKey, <<"Verified">>, <<"b">>)>>)}
      [] family = "concurrent" ->
            {Unreadable,
             Csv(RegistryColumns, <<Row(OtherKey, <<"Verified">>, <<"b">>)>>),
             Csv(RegistryColumns, <<Row(RegistryKey, <<"Verified">>, <<"a", "b">>),
                                    Row(OtherKey, <<"verified">>, <<"a">>)>>)}
      [] OTHER ->
            {Unreadable, Csv(LegacyColumns, <<>>)}
            \cup {Csv(RegistryColumns, rows) : rows \in SeqUpTo(RowKinds, 1)}
            \cup {Csv(RegistryColumns,
                      <<Row(OtherKey, <<"Verified">>, <<"b">>),
                        Row(RegistryKey, <<"verified">>, <<"a">>)>>)}

Feeds(family) ==
    CASE family = "news" -> NewsContents
      [] family = "registry" -> {Feed(<<>>), Feed(<<Alert(<<"h2">>, <<"a">>)>>)}
      [] family = "replace" ->
            {Unreadable, Feed(<<>>), Feed(<<Alert(<<"h2">>, <<"a">>)>>),
             Feed(<<Alert(<<"h2">>, <<"a">>), Alert(<<"h1">>, <<"x", "a", "b">>)>>)}
      [] family = "concurrent" ->
            {Unreadable, Feed(<<Alert(<<"h2">>, <<"a">>), Alert(<<"h1">>, <<"x", "a", "b">>)>>)}
      [] OTHER ->
            {Unreadable}
            \cup {Feed(alerts) : alerts \in SeqUpTo(AlertKinds, 1)}
            \cup {Feed(<<Alert(<<"h2">>, <<"a">>), Alert(<<"h1">>, <<"x", "a", "b">>)>>)}

Deeds(family) == IF family \in {"pipeline", "concurrent"} THEN DeedContents ELSE {DeedText}

Outcomes(family) ==
    CASE family = "pipeline" -> ServiceOutcomes
      [] family = "concurrent" ->
            {ServiceError, Completion(FALSE, JsonText(JNum(5))),
             Completion(FALSE, JsonText(Verdict(NoRisk))),
             Completion(FALSE, JsonText(Verdict("Title Dispute")))}
      [] OTHER -> {ServiceError, Completion(FALSE, JsonText(Verdict(NoRisk)))}

\* ---------------------------------------------------------------- state
VARIABLES
    inputs,            \* the family of inputs of this behaviour
    replaced,          \* the sources replaced on disk after a run first read them
    api_key_ok,        \* main.py:31,73: API_KEY is set and not the placeholder
    metadata_store,    \* token -> the metadata document, once read
    deed_file,         \* token -> the deed document, once read
    registry_file,     \* the registry CSV, once read
    news_file,         \* the news feed, once read
    entry,             \* run -> "api" (analyze_asset) or "core" (perform_asset_analysis)
    token_id,          \* run -> the token requested
    pc,                \* run -> the step the run is at
    asset_data,        \* run -> what get_asset_data returned to the orchestrator
    owner_name,        \* run -> the owner name the registry step extracted
    evidence_summary,  \* run -> the evidence records appended so far
    final_report,      \* run -> status, risk type, summary and details of the report
    http_status,       \* run -> 0 (none yet), 200, or the HTTPException's status
    attempted,         \* run -> the collector steps entered so far, in order
    llm_response,      \* run -> the outcome of the service call, if one was made
    llm_prompt,        \* run -> the payload sent to the service, if one was sent
    llm_calls,         \* run -> number of calls to the service
    proof              \* run -> the report the proof token was built from, if any

vars == <<inputs, replaced, api_key_ok, metadata_store, deed_file, registry_file, news_file,
          entry, token_id, pc, asset_data, owner_name, evidence_summary, final_report,
          http_status, attempted, llm_response, llm_prompt, llm_calls, proof>>

files == <<metadata_store, deed_file, registry_file, news_file>>
llm == <<llm_response, llm_prompt, llm_calls>>

Absent == "<absent>"
NoProof == [k |-> "none"]
NoPrompt == [k |-> "none"]

Report(token, status, risk, summary, details) ==
    [token_id |-> token, status |-> status, potential_risk_type |-> risk,
     summary |-> summary, details |-> details]

\* api.py:79-85
ApiInitialReport(token) ==
    Report(token, "Failed", "Analysis Error", "Analysis could not be completed.", Absent)

\* main.py:158-163
CoreInitialReport(token) ==
    Report(token, "Failed", "Analysis Error", Absent,
           "An unexpected error occurred during analysis.")

InitialReport(e, token) == IF e = "api" THEN ApiInitialReport(token) ELSE CoreInitialReport(token)

\* The runs that execute: one request at a time.
Active == {"r1"}

\* The state when the runs of `active` are about to start, each through
\* one of the entry points of `entries`.
InitRuns(family, keys, active, entries) ==
    /\ inputs = family
    /\ replaced = {}
    /\ api_key_ok \in keys
    /\ metadata_store = [t \in TokenIds |-> Unset]
    /\ deed_file = [t \in TokenIds |-> Unset]
    /\ registry_file = Unset
    /\ news_file = Unset
    /\ entry \in [Runs -> {"api", "core"}]
    /\ \A r \in Runs : entry[r] \in (IF r \in active THEN entries ELSE {"api"})
    /\ token_id = TokenOf
    /\ pc = [r \in Runs |-> IF r \in active THEN "start" ELSE "idle"]
    /\ asset_data = [r \in Runs |-> Unset]
    /\ owner_name = [r \in Runs |-> None]
    /\ evidence_summary = [r \in Runs |-> <<>>]
    /\ final_report = [r \in Runs |-> InitialReport(entry[r], token_id[r])]
    /\ http_status = [r \in Runs |-> 0]
    /\ attempted = [r \in Runs |-> <<>>]
    /\ llm_response = [r \in Runs |-> NotCalled]
    /\ llm_prompt = [r \in Runs |-> NoPrompt]
    /\ llm_calls = [r \in Runs |-> 0]
    /\ proof = [r \in Runs |-> NoProof]

InitOf(family, keys) == InitRuns(family, keys, Active, {"api", "core"})

Init == InitOf("pipeline", BOOLEAN)
InitRegistry == InitOf("registry", {TRUE})
InitNews == InitOf("news", {TRUE})
\* Two requests to analyze_asset, for different tokens, in flight at once.
InitConcurrent == InitRuns("concurrent", {TRUE}, Runs, {"api"})

\* An assignment that lands in every run, as if the local were shared
\* between invocations; C16 fails for it.
SetShared(f, r, v) == [x \in DOMAIN f |-> v]

Set(f, r, v) == [f EXCEPT ![r] = v]

\* raise HTTPException(status_code=code): the request ends with that status.
Raise(r, code) ==
    /\ http_status' = Set(http_status, r, code)
    /\ pc' = Set(pc, r, "done")

\* ----------------------------------------------------- analyze_asset
\* Step 1 (api.py:88-96): get_asset_data; an exception out of it reaches
\* the handler at api.py:176-179; a falsy result appends the ingestion
\* record and raises 404.
Ingest(r) ==
    /\ pc[r] = "start"
    /\ entry[r] = "api"
    /\ \E doc \in Observed(metadata_store[token_id[r]], Docs(inputs, token_id[r])) :
        LET res == get_asset_data(doc) IN
        /\ metadata_store' = Set(metadata_store, token_id[r], doc)
        /\ asset_data' = Set(asset_data, r, res)
        /\ IF res.tag = "raise"
           THEN /\ Raise(r, 500)
                /\ UNCHANGED <<final_report, evidence_summary>>
           ELSE IF IsFalsyAssetData(res)
           THEN /\ final_report' = Set(final_report, r,
                        [final_report[r] EXCEPT !.details = "Asset token not found in metadata registry."])
                /\ evidence_summary' = Set(evidence_summary, r,
                        Append(evidence_summary[r],
                               Evidence(IngestStep, "Failure",
                                        <<"Could not find metadata for token '">> \o token_id[r] \o <<"'.">>)))
                /\ Raise(r, 404)
           ELSE /\ pc' = Set(pc, r, "registry")
                /\ UNCHANGED <<final_report, evidence_summary, http_status>>
    /\ UNCHANGED <<inputs, replaced, api_key_ok, deed_file, registry_file, news_file, entry, token_id,
                   owner_name, attempted, llm, proof>>

\* Step 2a (api.py:98-117).
RegistryVerify(r) ==
    /\ pc[r] = "registry"
    /\ LET info == asset_data[r].info IN
       \E content \in (IF "registry_path" \in DOMAIN info
                       THEN Observed(registry_file, Registries(inputs))
                       ELSE {registry_file}) :
        LET out == RegistryVerifier(info, content) IN
        /\ registry_file' = content
        /\ evidence_summary' = Set(evidence_summary, r, Append(evidence_summary[r], out.evidence))
        /\ attempted' = Set(attempted, r, Append(attempted[r], RegistryStep))
        /\ IF out.raised
           THEN /\ Raise(r, 404)
                /\ UNCHANGED owner_name
           ELSE /\ owner_name' = Set(owner_name, r, out.owner_name)
                /\ pc' = Set(pc, r, "news")
                /\ UNCHANGED http_status
    /\ UNCHANGED <<inputs, replaced, api_key_ok, metadata_store, deed_file, news_file, entry, token_id,
                   asset_data, final_report, llm, proof>>

\* Step 2b (api.py:119-142).
NewsScan(r) ==
    /\ pc[r] = "news"
    /\ LET info == asset_data[r].info IN
       \E content \in (IF "news_path" \in DOMAIN info
                       THEN Observed(news_file, Feeds(inputs))
                       ELSE {news_file}) :
        LET out == NewsScanner(info, content, owner_name[r]) IN
        /\ news_file' = content
        /\ evidence_summary' = Set(evidence_summary, r, Append(evidence_summary[r], out.evidence))
        /\ attempted' = Set(attempted, r, Append(attempted[r], NewsStep))
        /\ IF out.raised
           THEN Raise(r, 500)
           ELSE /\ pc' = Set(pc, r, "review")
                /\ UNCHANGED http_status
    /\ UNCHANGED <<inputs, replaced, api_key_ok, metadata_store, deed_file, registry_file, entry, token_id,
                   asset_data, owner_name, final_report, llm, proof>>

\* The sources and the service outcome one call of run_llm_investigation
\* for `token` can see: each file is read only when the code reaches its
\* read, and the service answers only when it is called.
LlmWorlds(token) ==
    UNION { UNION { UNION { UNION {
        { [doc |-> doc, deed |-> deed, registry |-> registry, news |-> news, outcome |-> o] :
            o \in (IF CallsService(api_key_ok, doc, deed, registry, news)
                   THEN Outcomes(inputs) ELSE {NotCalled}) } :
        news \in (IF NeedsNews(api_key_ok, doc, deed, registry)
                  THEN Observed(news_file, Feeds(inputs)) ELSE {news_file}) } :
        registry \in (IF NeedsRegistry(api_key_ok, doc, deed)
                      THEN Observed(registry_file, Registries(inputs)) ELSE {registry_file}) } :
        deed \in (IF NeedsDeed(api_key_ok, doc)
                  THEN Observed(deed_file[token], Deeds(inputs)) ELSE {deed_file[token]}) } :
        doc \in (IF api_key_ok
                 THEN Observed(metadata_store[token], Docs(inputs, token))
                 ELSE {metadata_store[token]}) }

\* What a call of run_llm_investigation in world w leaves behind: the files
\* it read, the call it made and the payload it sent.
Investigate(r, w) ==
    /\ metadata_store' = Set(metadata_store, token_id[r], w.doc)
    /\ deed_file' = Set(deed_file, token_id[r], w.deed)
    /\ registry_file' = w.registry
    /\ news_file' = w.news
    /\ llm_response' = Set(llm_response, r, w.outcome)
    /\ IF w.outcome = NotCalled
       THEN UNCHANGED <<llm_prompt, llm_calls>>
       ELSE /\ llm_calls' = Set(llm_calls, r, llm_calls[r] + 1)
            /\ llm_prompt' = Set(llm_prompt, r, LlmPrompt(w.doc, w.deed, w.registry, w.news))

\* api.py:145-146 raises TypeError: `in` on a number, or indexing a string
\* or a list that holds the key.
ApiResultRaises(llm_result) ==
    /\ PyTruthy(llm_result)
    /\ \/ InRaises(llm_result)
       \/ PyIn(RiskKey, llm_result) /\ IndexRaises(llm_result)

\* api.py:145: `llm_result and "potential_risk_type" in llm_result`
HasVerdict(llm_result) == PyTruthy(llm_result) /\ PyIn(RiskKey, llm_result)

RiskSummary(risk_type) ==
    IF risk_type # NoRisk
    THEN "Comprehensive analysis completed. AI model identified a risk."
    ELSE "Comprehensive analysis of all data sources found no indicators."

\* A reviewer record that always reads Success; C11 fails for it.
VerdictEvidenceAlwaysSuccess(risk_type) ==
    Evidence(ReviewStep, "Success",
             <<"AI review of legal documents concluded: '", risk_type, "'.">>)

\* api.py:146-157: the evidence record and the report of a verdict.
VerdictEvidence(risk_type) ==
    Evidence(ReviewStep, IF risk_type # NoRisk THEN "Failure" ELSE "Success",
             <<"AI review of legal documents concluded: '", risk_type, "'.">>)

VerdictReport(report, risk_type) ==
    [report EXCEPT !.status = "Success", !.potential_risk_type = risk_type,
                   !.summary = RiskSummary(risk_type)]

\* A reviewer failure recorded under the news step's name; C17 fails for it.
NoVerdictEvidenceAsNews ==
    Evidence(NewsStep, "Failure", <<"AI model returned an unexpected or empty result.">>)

\* api.py:159-165: the evidence record and the report of no verdict.
NoVerdictEvidence ==
    Evidence(ReviewStep, "Failure", <<"AI model returned an unexpected or empty result.">>)

NoVerdictReport(report) ==
    [report EXCEPT !.status = "Partial Success",
                   !.summary = "Analysis was inconclusive due to an AI model error."]

\* A step 3 that grants Success only when the registry and news records
\* read Success as well; C20 fails for it.
AIReviewStrict(r) ==
    /\ pc[r] = "review"
    /\ \E w \in LlmWorlds(token_id[r]) :
        LET res == run_llm_investigation(api_key_ok, w.doc, w.deed, w.registry, w.news, w.outcome)
            llm_result == res.value
            clean == \A i \in DOMAIN evidence_summary[r] : evidence_summary[r][i].result = "Success"
        IN
        /\ Investigate(r, w)
        /\ attempted' = Set(attempted, r, Append(attempted[r], ReviewStep))
        /\ IF res.raised \/ ApiResultRaises(llm_result)
           THEN /\ Raise(r, 500)
                /\ UNCHANGED <<evidence_summary, final_report>>
           ELSE /\ pc' = Set(pc, r, "attest")
                /\ UNCHANGED http_status
                /\ IF HasVerdict(llm_result) /\ clean
                   THEN /\ evidence_summary' = Set(evidence_summary, r,
                                Append(evidence_summary[r], VerdictEvidence(llm_result.d[RiskKey])))
                        /\ final_report' = Set(final_report, r,
                                VerdictReport(final_report[r], llm_result.d[RiskKey]))
                   ELSE /\ evidence_summary' = Set(evidence_summary, r,
                                Append(evidence_summary[r], NoVerdictEvidence))
                        /\ final_report' = Set(final_report, r, NoVerdictReport(final_report[r]))
    /\ UNCHANGED <<inputs, replaced, api_key_ok, entry, token_id, asset_data, owner_name, proof>>

\* Step 3 (api.py:144-165); an exception reaches the handler at
\* api.py:176-179.
AIReview(r) ==
    /\ pc[r] = "review"
    /\ \E w \in LlmWorlds(token_id[r]) :
        LET res == run_llm_investigation(api_key_ok, w.doc, w.deed, w.registry, w.news, w.outcome)
            llm_result == res.value
        IN
        /\ Investigate(r, w)
        /\ attempted' = Set(attempted, r, Append(attempted[r], ReviewStep))
        /\ IF res.raised \/ ApiResultRaises(llm_result)
           THEN /\ Raise(r, 500)
                /\ UNCHANGED <<evidence_summary, final_report>>
           ELSE /\ pc' = Set(pc, r, "attest")
                /\ UNCHANGED http_status
                /\ IF HasVerdict(llm_result)
                   THEN /\ evidence_summary' = Set(evidence_summary, r,
                                Append(evidence_summary[r], VerdictEvidence(llm_result.d[RiskKey])))
                        /\ final_report' = Set(final_report, r,
                                VerdictReport(final_report[r], llm_result.d[RiskKey]))
                   ELSE /\ evidence_summary' = Set(evidence_summary, r,
                                Append(evidence_summary[r], NoVerdictEvidence))
                        /\ final_report' = Set(final_report, r, NoVerdictReport(final_report[r]))
    /\ UNCHANGED <<inputs, replaced, api_key_ok, entry, token_id, asset_data, owner_name, proof>>

\* generate_mock_zk_proof(final_report): a token determined by the report.
generate_mock_zk_proof(report, evidence) ==
    [k |-> "proof", report |-> report, evidence |-> evidence]

\* A step 4 that builds the token from the report as it was before the
\* review; C19 fails for it.
AttestInitialReport(r) ==
    /\ pc[r] = "attest"
    /\ proof' = Set(proof, r, generate_mock_zk_proof(ApiInitialReport(token_id[r]), <<>>))
    /\ http_status' = Set(http_status, r, 200)
    /\ pc' = Set(pc, r, "done")
    /\ UNCHANGED <<inputs, replaced, api_key_ok, files, entry, token_id, asset_data, owner_name,
                   evidence_summary, final_report, attempted, llm>>

\* Step 4 (api.py:167-173): the proof token, then the 200 response.
Attest(r) ==
    /\ pc[r] = "attest"
    /\ proof' = Set(proof, r, generate_mock_zk_proof(final_report[r], evidence_summary[r]))
    /\ http_status' = Set(http_status, r, 200)
    /\ pc' = Set(pc, r, "done")
    /\ UNCHANGED <<inputs, replaced, api_key_ok, files, entry, token_id, asset_data, owner_name,
                   evidence_summary, final_report, attempted, llm>>

\* ------------------------------------------------ perform_asset_analysis
\* main.py:170-171,179 raise: `in` on a number, or .get on a string or a
\* list that holds "error".
CoreResultRaises(llm_result) ==
    /\ PyTruthy(llm_result)
    /\ \/ InRaises(llm_result)
       \/ PyIn("error", llm_result) /\ IndexRaises(llm_result)

\* main.py:170-176: the investigator returned an error dict.
CoreErrorReport(report, d) ==
    LET message == IF "message" \in DOMAIN d THEN d["message"] ELSE "LLM investigation failed."
    IN  IF message = "Asset not found."
        THEN [report EXCEPT !.details = message, !.status = "Not Found",
                            !.potential_risk_type = "Asset Not Found"]
        ELSE [report EXCEPT !.details = message]

\* main.py:179-183: risk_assessment becomes the whole result.
CoreVerdictReport(report, llm_result) ==
    [report EXCEPT !.status = "Success",
                   !.potential_risk_type =
                        IF llm_result.t = "dict" THEN llm_result.d[RiskKey] ELSE "<not a dict>",
                   !.details = "LLM investigation completed successfully."]

\* main.py:184-188
CoreNoVerdictReport(report) ==
    [report EXCEPT !.status = "Partial Success", !.potential_risk_type = "Unknown Risk",
                   !.details = "LLM investigation returned an unexpected or empty result."]

\* A handler that reports the run as partially successful; C6 fails for it.
CoreCriticalReportAsPartial(report) ==
    [report EXCEPT !.status = "Partial Success",
                   !.details = "Critical error during LLM investigation"]

\* main.py:191-195
CoreCriticalReport(report) ==
    [report EXCEPT !.details = "Critical error during LLM investigation"]

\* perform_asset_analysis (main.py:149-198): one call, always returns.
CoreAnalysis(r) ==
    /\ pc[r] = "start"
    /\ entry[r] = "core"
    /\ \E w \in LlmWorlds(token_id[r]) :
        LET res == run_llm_investigation(api_key_ok, w.doc, w.deed, w.registry, w.news, w.outcome)
            llm_result == res.value
        IN
        /\ Investigate(r, w)
        /\ final_report' = Set(final_report, r,
              IF res.raised \/ CoreResultRaises(llm_result)
              THEN CoreCriticalReport(final_report[r])
              ELSE IF PyTruthy(llm_result) /\ PyIn("error", llm_result)
              THEN CoreErrorReport(final_report[r], llm_result.d)
              ELSE IF HasVerdict(llm_result)
              THEN CoreVerdictReport(final_report[r], llm_result)
              ELSE CoreNoVerdictReport(final_report[r]))
    /\ pc' = Set(pc, r, "done")
    /\ UNCHANGED <<inputs, replaced, api_key_ok, entry, token_id, asset_data, owner_name,
                   evidence_summary, http_status, attempted, proof>>

\* ---------------------------------------------------------- specification
Next ==
    \E r \in Active :
        \/ Ingest(r)
        \/ RegistryVerify(r)
        \/ NewsScan(r)
        \/ AIReview(r)
        \/ Attest(r)
        \/ CoreAnalysis(r)

Spec == Init /\ [][Next]_vars
SpecRegistry == InitRegistry /\ [][Next]_vars
SpecNews == InitNews /\ [][Next]_vars

\* The registry file is replaced on disk, in one piece, after the registry
\* step of the request read it (api.py:99) and before the reviewer reads it
\* again (main.py:87).
ReplaceRegistry(r) ==
    /\ pc[r] \in {"news", "review"}
    /\ "registry" \notin replaced
    /\ registry_file' \in Registries(inputs) \ {registry_file}
    /\ replaced' = replaced \cup {"registry"}
    /\ UNCHANGED <<inputs, api_key_ok, metadata_store, deed_file, news_file, entry, token_id,
                   pc, asset_data, owner_name, evidence_summary, final_report, http_status,
                   attempted, llm, proof>>

\* The news feed is replaced on disk, in one piece, after the news step read
\* it (api.py:120-121) and before the reviewer reads it again (main.py:90).
ReplaceNews(r) ==
    /\ pc[r] = "review"
    /\ "news" \notin replaced
    /\ news_file' \in Feeds(inputs) \ {news_file}
    /\ replaced' = replaced \cup {"news"}
    /\ UNCHANGED <<inputs, api_key_ok, metadata_store, deed_file, registry_file, entry,
                   token_id, pc, asset_data, owner_name, evidence_summary, final_report,
                   http_status, attempted, llm, proof>>

\* One request to analyze_asset while the sources may be replaced under it.
InitReplace == InitRuns("replace", {TRUE}, Active, {"api"})

NextReplace ==
    \E r \in Active :
        \/ Ingest(r)
        \/ RegistryVerify(r)
        \/ NewsScan(r)
        \/ AIReview(r)
        \/ Attest(r)
        \/ ReplaceRegistry(r)
        \/ ReplaceNews(r)

SpecReplace == InitReplace /\ [][NextReplace]_vars

\* Two requests whose steps interleave in any order.
NextConcurrent ==
    \E r \in Runs :
        \/ Ingest(r)
        \/ RegistryVerify(r)
        \/ NewsScan(r)
        \/ AIReview(r)
        \/ Attest(r)

SpecConcurrent == InitConcurrent /\ [][NextConcurrent]_vars

\* ------------------------------------------------------------- claims
Done(r) == pc[r] = "done"
IsApi(r) == entry[r] = "api"
Entered(r, step) == step \in Range(attempted[r])

\* The record the run appended for a collector step it entered.
Record(r, step) ==
    LET i == CHOOSE i \in DOMAIN evidence_summary[r] : evidence_summary[r][i].step = step
    IN  evidence_summary[r][i]

\* The metadata store holds no document for the run's token.
NoMetadata(r) == metadata_store[token_id[r]].tag = "absent"

\* C1: for every asset id that has no metadata in the store, the run ends
\* with overall_status = NotFound and an empty evidence trail, in
\* analyze_asset and in perform_asset_analysis.
C1_UnresolvedIsNotFound ==
    \A r \in Active :
        (Done(r) /\ NoMetadata(r)) =>
            /\ final_report[r].status = "Not Found"
            /\ evidence_summary[r] = <<>>

\* The registry file was read, has the lookup column, and none of its rows
\* carries the asset's registry key.
RowMissing(r) ==
    /\ Entered(r, RegistryStep)
    /\ registry_file.tag = "csv"
    /\ "c_of_o_id" \in registry_file.columns
    /\ "registry_key" \in DOMAIN asset_data[r].info
    /\ \A i \in DOMAIN registry_file.rows :
            registry_file.rows[i].c_of_o_id # asset_data[r].info["registry_key"]

\* C2: when the registry file is readable but has no row for the asset's
\* key, the Registry Verifier records a Failure and the run is not
\* aborted: the news scan and the AI review are still attempted, and the
\* final status is never Success.
C2_MissingRowIsNotFatal ==
    \A r \in Active :
        (Done(r) /\ IsApi(r) /\ RowMissing(r)) =>
            /\ Record(r, RegistryStep).result = "Failure"
            /\ Entered(r, NewsStep)
            /\ Entered(r, ReviewStep)
            /\ final_report[r].status # "Success"

\* The service answered with text that is not JSON (garbage or nothing), or
\* with a JSON object that has no risk-category field.
NoUsableVerdict(r) ==
    /\ llm_response[r].k = "text"
    /\ \/ llm_response[r].body.k # "json"
       \/ /\ llm_response[r].body.v.t = "dict"
          /\ RiskKey \notin DOMAIN llm_response[r].body.v.d

\* C3: whenever the AI reviewer's raw output is not parseable JSON, or
\* parses but omits the risk-category field, the report has overall_status
\* = PartialSuccess and risk category Unknown (not Analysis Error).
C3_NoVerdictIsUnknown ==
    \A r \in Active :
        (Done(r) /\ NoUsableVerdict(r)) =>
            /\ final_report[r].status = "Partial Success"
            /\ final_report[r].potential_risk_type \in {"Unknown", "Unknown Risk"}

\* The service answered with a JSON object whose risk category is not one
\* of the four enumerated categories.
OutOfSetVerdict(r) ==
    /\ llm_response[r].k = "text"
    /\ llm_response[r].body.k = "json"
    /\ llm_response[r].body.v.t = "dict"
    /\ RiskKey \in DOMAIN llm_response[r].body.v.d
    /\ llm_response[r].body.v.d[RiskKey] \notin Categories

\* C4: a risk category outside the four enumerated ones is a reviewer
\* failure: the run ends PartialSuccess, and an out-of-set category is
\* never the risk verdict of a Success report.
C4_OutOfSetIsRejected ==
    \A r \in Active :
        Done(r) =>
            /\ OutOfSetVerdict(r) => final_report[r].status = "Partial Success"
            /\ final_report[r].status = "Success" =>
                    final_report[r].potential_risk_type \in Categories

\* The run reached the AI Document Reviewer with an asset whose metadata
\* the resolver can parse.
ReachedReviewer(r) ==
    /\ IF IsApi(r) THEN Entered(r, ReviewStep) ELSE Done(r)
    /\ metadata_store[token_id[r]] # Unset =>
            get_asset_data(metadata_store[token_id[r]]).tag # "raise"

\* C5: reviewer errors never propagate: every run that reaches the AI
\* reviewer ends normally with overall_status Success or PartialSuccess,
\* whatever the reviewer's configuration, the service or the response
\* text (any JSON value) does; no exception or error response escapes.
C5_ReviewerNeverPropagates ==
    \A r \in Active :
        (Done(r) /\ ReachedReviewer(r)) =>
            /\ final_report[r].status \in {"Success", "Partial Success"}
            /\ http_status[r] \in {0, 200}

\* The run stopped on the distinguished NotFound condition: the resolver
\* returned nothing for the token.
NotFoundCondition(r) ==
    /\ asset_data[r] # Unset
    /\ asset_data[r].tag # "raise"
    /\ IsFalsyAssetData(asset_data[r])

\* C6 (as claimed): no failure other than NotFound reaches the caller as an
\* exception; it is returned as a report with status Failed and risk
\* category Analysis Error.
C6_NeverRaisesPastBoundary ==
    \A r \in Active :
        (Done(r) /\ ~NotFoundCondition(r)) => http_status[r] \notin {404, 500}

\* perform_asset_analysis met an exception: out of run_llm_investigation,
\* or out of its own handling of a result that is a number, a string or a
\* list.
CoreFailure(r) ==
    /\ ~IsApi(r)
    /\ api_key_ok
    /\ \/ metadata_store[token_id[r]].tag = "json"
          /\ \E i \in DOMAIN metadata_store[token_id[r]].attributes :
                metadata_store[token_id[r]].attributes[i].trait_type = None
       \/ /\ llm_response[r].k = "text"
          /\ ~llm_response[r].fenced
          /\ llm_response[r].body.k = "json"
          /\ \/ llm_response[r].body.v.t = "int"
             \/ /\ llm_response[r].body.v.t = "str"
                /\ "error" \in Range(llm_response[r].body.v.s)

\* C6 (amended): perform_asset_analysis never raises: it always returns a
\* report, and every exception inside it leaves the report at status
\* Failed with risk category Analysis Error.  analyze_asset delivers every
\* failure to its caller as an HTTPException with status 404 or 500; the
\* report it was building still reads Failed / Analysis Error then, and a
\* 200 response carries a report whose status is Success or Partial
\* Success.
C6_FailuresByEntryPoint ==
    \A r \in Active :
        Done(r) =>
            IF IsApi(r)
            THEN /\ http_status[r] \in {200, 404, 500}
                 /\ http_status[r] # 200 =>
                        /\ final_report[r].status = "Failed"
                        /\ final_report[r].potential_risk_type = "Analysis Error"
                        /\ proof[r] = NoProof
                 /\ http_status[r] = 200 =>
                        final_report[r].status \in {"Success", "Partial Success"}
            ELSE /\ http_status[r] = 0
                 /\ final_report[r].status \in {"Failed", "Not Found", "Success", "Partial Success"}
                 /\ final_report[r].status = "Failed" =>
                        final_report[r].potential_risk_type = "Analysis Error"
                 /\ CoreFailure(r) => final_report[r].status = "Failed"

\* C6 witness: perform_asset_analysis returned the Failed report after an
\* exception in handling the service's answer.
C6_CoreReturnedFailed ==
    \E r \in Active :
        Done(r) /\ CoreFailure(r) /\ final_report[r].status = "Failed"
        /\ llm_response[r].k = "text"

\* C7: in every state of a run of analyze_asset the evidence trail is as
\* long as the number of collector steps attempted so far.
C7_OneRecordPerCollector ==
    \A r \in Active :
        IsApi(r) => Len(evidence_summary[r]) = Len(attempted[r])

\* The registry file was read and holds a row with the asset's key.
RowFound(r) ==
    /\ IsApi(r)
    /\ Entered(r, RegistryStep)
    /\ registry_file.tag = "csv"
    /\ "c_of_o_id" \in registry_file.columns
    /\ "registry_key" \in DOMAIN asset_data[r].info
    /\ \E i \in DOMAIN registry_file.rows :
            registry_file.rows[i].c_of_o_id = asset_data[r].info["registry_key"]

\* The first row of the registry file that carries the asset's key, as
\* written in the file.
FirstRow(r) ==
    LET hits == {i \in DOMAIN registry_file.rows :
                    registry_file.rows[i].c_of_o_id = asset_data[r].info["registry_key"]}
        first == CHOOSE i \in hits : \A j \in hits : i <= j
    IN  registry_file.rows[first]

\* C8: when the registry row of the asset is found, the Registry Verifier
\* outcome is Success iff the row's status is exactly "Verified"; for every
\* other status the outcome is Failure and the evidence detail contains
\* that status value.
C8_VerifiedIffSuccess ==
    \A r \in Active :
        RowFound(r) =>
            LET status == FirstRow(r).status
                record == Record(r, RegistryStep)
            IN  /\ record.result = "Success" <=> status = <<"Verified">>
                /\ status # <<"Verified">> =>
                        /\ record.result = "Failure"
                        /\ IsSubstring(status, record.details)

\* The news step ran on a feed it could read.
NewsScanned(r) ==
    /\ IsApi(r)
    /\ Entered(r, NewsStep)
    /\ "news_path" \in DOMAIN asset_data[r].info
    /\ news_file.tag = "json"

SummaryOf(alert) == IF "summary" \in DOMAIN alert THEN alert.summary ELSE <<>>

\* What the detail shows for an alert: its headline, or N/A when it has none.
HeadlineOf(alert) == IF "headline" \in DOMAIN alert THEN alert.headline ELSE <<"N/A">>

\* The positions in the feed of the alerts whose summary contains `owner`.
MatchingAlerts(owner) ==
    {i \in DOMAIN news_file.alerts : IsSubstring(owner, SummaryOf(news_file.alerts[i]))}

\* The k-th smallest element of a set of positions.
Kth(S, k) == CHOOSE i \in S : Cardinality({j \in S : j <= i}) = k

\* What follows "Headlines: " in a detail text.
Listing(details) ==
    LET p == CHOOSE p \in DOMAIN details : details[p] = "'. Headlines: "
    IN  SubSeq(details, p + 1, Len(details))

\* C9: when the owner name (a text, as the scanner receives it) occurs as
\* a case-sensitive substring of at least one alert's summary, the
\* Adverse-News outcome is Failure and the detail lists, after
\* "Headlines: ", the headline of every matching alert (N/A for an alert
\* that has none), once per matching alert, in feed order, joined by ", ",
\* and nothing else.
C9_MatchingHeadlinesListed ==
    \A r \in Active :
        (NewsScanned(r) /\ owner_name[r] # NaN /\ MatchingAlerts(owner_name[r]) # {}) =>
            LET M == MatchingAlerts(owner_name[r])
                n == Cardinality(M)
                record == Record(r, NewsStep)
            IN  /\ record.result = "Failure"
                /\ "'. Headlines: " \in Range(record.details)
                /\ LET listing == Listing(record.details) IN
                   /\ Len(listing) = 2 * n - 1
                   /\ \A k \in 1..n :
                        <<listing[2 * k - 1]>> = HeadlineOf(news_file.alerts[Kth(M, k)])
                   /\ \A k \in 1..(n - 1) : listing[2 * k] = ", "

\* C9 witness: the scan ran with two matching alerts and a non-matching
\* alert between them.
C9_TwoMatchesAroundAMiss ==
    \E r \in Active :
        /\ NewsScanned(r) /\ owner_name[r] # NaN
        /\ \E i, j, k \in DOMAIN news_file.alerts :
            /\ i < j /\ j < k
            /\ {i, k} \subseteq MatchingAlerts(owner_name[r])
            /\ j \notin MatchingAlerts(owner_name[r])
            /\ HeadlineOf(news_file.alerts[i]) # HeadlineOf(news_file.alerts[k])

\* The owner name is empty or missing (pandas reads the empty cell as NaN).
OwnerMissing(r) == owner_name[r] \in {<<>>, NaN}

\* C10: the Adverse-News outcome is Success exactly when no alert summary
\* contains the owner name; an empty or missing owner name matches no
\* alert and yields Success.
C10_SuccessIffNoMatch ==
    \A r \in Active :
        NewsScanned(r) =>
            LET nomatch == OwnerMissing(r) \/ MatchingAlerts(owner_name[r]) = {}
            IN  Record(r, NewsStep).result = "Success" <=> nomatch

\* The service answered with the JSON object of one of the four enumerated
\* categories (between fences or not).
ValidVerdict(r) ==
    /\ llm_response[r].k = "text"
    /\ llm_response[r].body.k = "json"
    /\ llm_response[r].body.v.t = "dict"
    /\ DOMAIN llm_response[r].body.v.d = {RiskKey}
    /\ llm_response[r].body.v.d[RiskKey] \in Categories

ReturnedCategory(r) == llm_response[r].body.v.d[RiskKey]

\* C11: when the AI reviewer returns No Risk Found, the report has
\* overall_status Success and the reviewer's record reads Success; when it
\* returns one of the three other valid categories, overall_status is
\* still Success, the reviewer's record reads Failure, and the report's
\* risk category is the returned one.
C11_ValidCategoryIsSuccess ==
    \A r \in Active :
        (IsApi(r) /\ Entered(r, ReviewStep) /\ ValidVerdict(r)) =>
            /\ final_report[r].status = "Success"
            /\ final_report[r].potential_risk_type = ReturnedCategory(r)
            /\ Len(evidence_summary[r]) = 3
            /\ evidence_summary[r][3].step = ReviewStep
            /\ evidence_summary[r][3].result =
                    (IF ReturnedCategory(r) = NoRisk THEN "Success" ELSE "Failure")

\* C11 witness: a finished request whose reviewer returned Title Dispute.
C11_TitleDisputeReturned ==
    \E r \in Active :
        /\ IsApi(r) /\ Done(r) /\ ValidVerdict(r)
        /\ ReturnedCategory(r) = "Title Dispute"
        /\ http_status[r] = 200

\* A source the run consulted was missing or unreadable: the metadata file,
\* the registry file, the news feed or the deed document.
SourceUnavailable(r) ==
    \/ metadata_store[token_id[r]].tag \in {"absent", "corrupt"}
    \/ registry_file = Unreadable
    \/ news_file = Unreadable
    \/ deed_file[token_id[r]] = Unreadable

\* C12: whenever a backing source consulted during a run is unreachable or
\* unreadable, the run ends as a failure and never completes with
\* overall_status Success or PartialSuccess.
C12_UnavailableSourceIsFatal ==
    \A r \in Active :
        (Done(r) /\ SourceUnavailable(r)) =>
            /\ final_report[r].status \notin {"Success", "Partial Success"}
            /\ http_status[r] # 200

\* The registry step of the request found the registry file unreadable.
RegistryUnreadable(r) ==
    /\ IsApi(r)
    /\ Entered(r, RegistryStep)
    /\ registry_file = Unreadable

\* C13: if the registry file cannot be read, the run appends one Failure
\* record for the Registry Verifier and aborts: the news scan, the AI
\* review and the attestation step are never executed, and the report's
\* overall_status is Failed.
C13_UnreadableRegistryAborts ==
    \A r \in Active :
        RegistryUnreadable(r) =>
            /\ Done(r)
            /\ attempted[r] = <<RegistryStep>>
            /\ Len(evidence_summary[r]) = 1
            /\ evidence_summary[r][1].step = RegistryStep
            /\ evidence_summary[r][1].result = "Failure"
            /\ llm_response[r] = NotCalled
            /\ llm_calls[r] = 0
            /\ news_file = Unset
            /\ proof[r] = NoProof
            /\ final_report[r].status = "Failed"

\* C13 witness: a request stopped by an unreadable registry file.
C13_StoppedAtRegistry ==
    \E r \in Active : RegistryUnreadable(r) /\ http_status[r] = 404

\* The review step of the request raised on the value the reviewer returned.
ReviewRaised(r) ==
    /\ llm_response[r] # NotCalled
    /\ ApiResultRaises(ParseOutcome(llm_response[r]))

\* The HTTP outcomes C14 allows for a finished request, by where it
\* stopped.  Metadata without a required attribute may count as an
\* unresolved asset (404) or as an internal error (500); a registry file
\* without the lookup column counts as an unreachable registry.
AllowedHttp(r) ==
    IF asset_data[r].tag = "raise" THEN {500}
    ELSE IF NotFoundCondition(r) THEN {404}
    ELSE IF {"registry_path", "registry_key", "news_path"} \ DOMAIN asset_data[r].info # {}
            /\ ~Entered(r, ReviewStep)
         THEN {404, 500}
    ELSE IF registry_file = Unreadable THEN {404}
    ELSE IF "c_of_o_id" \notin registry_file.columns THEN {404}
    ELSE IF news_file = Unreadable THEN {500}
    ELSE IF owner_name[r] = NaN /\ Entered(r, NewsStep) /\ ~Entered(r, ReviewStep) THEN {500}
    ELSE IF ReviewRaised(r) THEN {500}
    ELSE {200}

\* C14: every request to GET /analyze/{token_id} ends in exactly one HTTP
\* outcome determined by where the run stopped: 404 for an unresolved
\* asset, 404 or 500 for an unreachable registry or news source, 500 for an
\* unexpected internal error, and 200 with the full report for every other
\* run, PartialSuccess included.
C14_HttpOutcomeByStop ==
    \A r \in Active :
        (IsApi(r) /\ Done(r)) =>
            /\ http_status[r] \in AllowedHttp(r)
            /\ http_status[r] = 200 => proof[r] # NoProof

RequiredAttributes == {"deed_path", "news_path", "registry_path", "registry_key"}

\* The metadata document of the run's token was read, is JSON, and either
\* lacks a required attribute or has an attribute entry without trait_type.
IncompleteMetadata(r) ==
    LET doc == metadata_store[token_id[r]] IN
    /\ doc.tag = "json"
    /\ \/ \E i \in DOMAIN doc.attributes : doc.attributes[i].trait_type = None
       \/ RequiredAttributes \ DOMAIN get_asset_data(doc).info # {}

\* The metadata document has every attribute the generator writes and one
\* more of an unknown trait type.
ExtraAttribute(r) ==
    metadata_store[token_id[r]] =
        JsonDoc(FullAttributes(token_id[r]) \o <<Attr(UnknownTrait, <<"plan.pdf">>)>>)

\* C15: the resolver ignores unknown metadata attributes, and metadata that
\* lacks a required attribute or has a malformed attribute entry ends the
\* run as a resolution failure: the outcome of an unknown asset (404), with
\* no collector attempted; never a crash, never a failure recorded by a
\* later collector.
C15_IncompleteMetadataIsUnresolved ==
    \A r \in Active :
        (IsApi(r) /\ Done(r)) =>
            /\ ExtraAttribute(r) =>
                    asset_data[r] = get_asset_data(JsonDoc(FullAttributes(token_id[r])))
            /\ IncompleteMetadata(r) =>
                    /\ http_status[r] = 404
                    /\ attempted[r] = <<>>

\* What the request of run r yields when its steps execute alone, one after
\* the other, on the sources as they stand and the service outcome the run
\* received: the HTTP status, the report and the evidence trail.
AloneOutcome(r) ==
    LET token == token_id[r]
        doc == metadata_store[token]
        res == get_asset_data(doc)
        initial == ApiInitialReport(token)
        Result(http, report, evidence) ==
            [http |-> http, report |-> report, evidence |-> evidence]
    IN  IF res.tag = "raise" THEN Result(500, initial, <<>>)
        ELSE IF IsFalsyAssetData(res)
        THEN Result(404,
                    [initial EXCEPT !.details = "Asset token not found in metadata registry."],
                    <<Evidence(IngestStep, "Failure",
                               <<"Could not find metadata for token '">> \o token \o <<"'.">>)>>)
        ELSE LET reg == RegistryVerifier(res.info, registry_file) IN
        IF reg.raised THEN Result(404, initial, <<reg.evidence>>)
        ELSE LET nw == NewsScanner(res.info, news_file, reg.owner_name) IN
        IF nw.raised THEN Result(500, initial, <<reg.evidence, nw.evidence>>)
        ELSE LET out == run_llm_investigation(api_key_ok, doc, deed_file[token],
                                              registry_file, news_file, llm_response[r])
                 v == out.value
             IN
        IF out.raised \/ ApiResultRaises(v)
        THEN Result(500, initial, <<reg.evidence, nw.evidence>>)
        ELSE IF HasVerdict(v)
        THEN Result(200, VerdictReport(initial, v.d[RiskKey]),
                    <<reg.evidence, nw.evidence, VerdictEvidence(v.d[RiskKey])>>)
        ELSE Result(200, NoVerdictReport(initial),
                    <<reg.evidence, nw.evidence, NoVerdictEvidence>>)

\* C16: requests for different asset identifiers are independent under
\* concurrency: for every interleaving of the steps of two requests for
\* different tokens over unchanged sources, each request's status, risk
\* verdict and evidence trail are those it has when it executes alone, and
\* no record of one request is in the other's trail.
C16_ConcurrentRunsIndependent ==
    \A r \in Runs :
        /\ final_report[r].token_id = token_id[r]
        /\ \A i \in DOMAIN evidence_summary[r] :
                /\ evidence_summary[r][i].step = IngestStep =>
                        IsSubstring(token_id[r], evidence_summary[r][i].details)
                /\ evidence_summary[r][i].step = RegistryStep /\ ~(registry_file = Unreadable) =>
                        IsSubstring(KeyOf(token_id[r]), evidence_summary[r][i].details)
                           \/ evidence_summary[r][i].details =
                                <<"Could not verify asset in land registry: ",
                                  "Asset not found in registry.">>
        /\ Done(r) =>
            /\ http_status[r] = AloneOutcome(r).http
            /\ final_report[r] = AloneOutcome(r).report
            /\ evidence_summary[r] = AloneOutcome(r).evidence

\* C16 witness: two requests for different tokens, both finished after all
\* three collectors, with different verdicts.
C16_BothFinishedDifferently ==
    /\ token_id["r1"] # token_id["r2"]
    /\ \A r \in Runs : Done(r) /\ http_status[r] = 200 /\ Len(evidence_summary[r]) = 3
    /\ final_report["r1"].potential_risk_type # final_report["r2"].potential_risk_type
    /\ evidence_summary["r1"][1] # evidence_summary["r2"][1]

\* The request resolved its asset: the resolver returned a non-empty dict.
Resolved(r) ==
    /\ IsApi(r)
    /\ asset_data[r] # Unset
    /\ asset_data[r].tag = "dict"
    /\ ~IsFalsyAssetData(asset_data[r])

\* The step names of a trail, in order.
StepsOf(trail) == [i \in DOMAIN trail |-> trail[i].step]

CollectorOrder ==
    <<"Land Registry Verification", "Public News & Gazette Scan", "Legal Document Review (AI)">>

\* C17: the evidence trail records steps in execution order: at every point
\* of every run that resolved its asset, the trail's steps are a prefix of
\* [Land Registry Verification, Public News & Gazette Scan, Legal Document
\* Review (AI)].
C17_TrailIsPrefixOfOrder ==
    \A r \in Active :
        Resolved(r) =>
            /\ Len(evidence_summary[r]) <= 3
            /\ StepsOf(evidence_summary[r]) = SubSeq(CollectorOrder, 1, Len(evidence_summary[r]))

\* C17 witness: a request whose reviewer failed, with all three records.
C17_ThreeRecordsAfterFailedReview ==
    \E r \in Active :
        /\ Resolved(r) /\ Len(evidence_summary[r]) = 3
        /\ evidence_summary[r][3].result = "Failure"
        /\ final_report[r].status = "Partial Success"

\* The run called the service and the call failed.
CallFailed(r) == llm_response[r] = ServiceError

\* C18: the text-generation service is called at most once per run, with
\* no retry, and a failed call ends the reviewer step only: the request
\* still appends the reviewer's Failure record, builds the attestation
\* token and returns a report.
C18_OneCallFailureNotFatal ==
    \A r \in Active :
        /\ llm_calls[r] <= 1
        /\ llm_calls[r] = (IF llm_response[r] = NotCalled THEN 0 ELSE 1)
        /\ CallFailed(r) =>
            IF IsApi(r)
            THEN /\ pc[r] \in {"attest", "done"}
                 /\ Len(evidence_summary[r]) = 3
                 /\ evidence_summary[r][3] = NoVerdictEvidence
                 /\ final_report[r].status = "Partial Success"
                 /\ Done(r) => http_status[r] = 200
                                /\ proof[r] = generate_mock_zk_proof(final_report[r],
                                                                     evidence_summary[r])
            ELSE Done(r) /\ final_report[r].status = "Partial Success"

\* C18 witness: a request answered 200 with a token after its one call to
\* the service failed.
C18_AnsweredAfterFailedCall ==
    \E r \in Active :
        /\ IsApi(r) /\ CallFailed(r) /\ Done(r)
        /\ llm_calls[r] = 1
        /\ proof[r] # NoProof

\* C19: the attestation token is built only after the AI reviewer step has
\* set the final overall_status and risk verdict, from the fully assembled
\* report; on every run that aborts earlier no token is produced and the
\* report still reads Failed / Analysis Error.
C19_TokenFromAssembledReport ==
    \A r \in Active :
        /\ proof[r] # NoProof =>
            /\ Done(r) /\ http_status[r] = 200
            /\ attempted[r] = <<RegistryStep, NewsStep, ReviewStep>>
            /\ Len(evidence_summary[r]) = 3
            /\ final_report[r].status \in {"Success", "Partial Success"}
            /\ proof[r].report = final_report[r]
            /\ proof[r].evidence = evidence_summary[r]
        /\ (IsApi(r) /\ Done(r) /\ http_status[r] # 200) =>
            /\ proof[r] = NoProof
            /\ final_report[r].status = "Failed"
            /\ final_report[r].potential_risk_type = "Analysis Error"
        /\ (IsApi(r) /\ Done(r) /\ http_status[r] = 200) => proof[r] # NoProof

\* C19 witness: a token built from a Success report with a risk verdict.
C19_TokenOfSuccessReport ==
    \E r \in Active :
        /\ proof[r] # NoProof
        /\ proof[r].report.status = "Success"
        /\ proof[r].report.potential_risk_type = "Financial Pledge"

\* The value the reviewer handed to the orchestrator in run r: the parsed
\* answer of the service, or nothing (null) when the service was not
\* called or its answer could not be used.
ReviewerResult(r) ==
    IF llm_response[r] \in {NotCalled, ServiceError} THEN JNull
    ELSE IF llm_response[r].body.k # "json" THEN JNull
    ELSE llm_response[r].body.v

\* The reviewer's result is an object with the risk-category field.
IsVerdictObject(v) == v.t = "dict" /\ RiskKey \in DOMAIN v.d

\* C20: once the registry and the news collector have both completed
\* without aborting, the report's overall_status and risk verdict are a
\* function of the AI reviewer's result alone: Failure outcomes in the
\* registry or news records do not prevent Success, and Success outcomes
\* there do not prevent PartialSuccess.
C20_StatusFromReviewerAlone ==
    \A r \in Active :
        (IsApi(r) /\ Entered(r, ReviewStep) /\ http_status[r] # 500) =>
            LET v == ReviewerResult(r) IN
            IF IsVerdictObject(v)
            THEN /\ final_report[r].status = "Success"
                 /\ final_report[r].potential_risk_type = v.d[RiskKey]
            ELSE /\ final_report[r].status = "Partial Success"
                 /\ final_report[r].potential_risk_type = "Analysis Error"

\* C20 witness: a Success report over a registry Failure and a news Failure.
C20_SuccessOverFailures ==
    \E r \in Active :
        /\ IsApi(r) /\ Done(r) /\ Len(evidence_summary[r]) = 3
        /\ evidence_summary[r][1].result = "Failure"
        /\ evidence_summary[r][2].result = "Failure"
        /\ final_report[r].status = "Success"

NoNewsSentinel == <<[sentinel |-> "No relevant news found."]>>

\* The reviewer of request r sent its message to the service.
PromptSent(r) == IsApi(r) /\ llm_prompt[r] # NoPrompt

\* The owner name and the owner-matched news in the reviewer's message are
\* those of the Adverse-News record of the same request.
PromptAgreesWithEvidence(r) ==
    LET relevant == llm_prompt[r].news_content
        record == Record(r, NewsStep)
    IN  /\ llm_prompt[r].owner_name = owner_name[r]
        /\ record.result = "Success" <=> relevant = NoNewsSentinel
        /\ relevant # NoNewsSentinel =>
                Listing(record.details) = Join(Headlines(relevant), HeadlineSeparator)

\* C21: within one run the AI reviewer resolves the asset again and reads
\* the registry and the news feed again, apart from the collectors.  While
\* no source is replaced during the run, the owner name and the
\* owner-matched news sent to the service are exactly those of the
\* Adverse-News record; the reviewer reads whatever is on disk at its own
\* read, so after a replacement one report can combine a record and a
\* verdict that come from two versions of a source.
C21_ReviewerRereadsSources ==
    \A r \in Active :
        PromptSent(r) =>
            /\ replaced = {} => PromptAgreesWithEvidence(r)
            /\ llm_prompt[r] = LlmPrompt(metadata_store[token_id[r]], deed_file[token_id[r]],
                                         registry_file, news_file)

\* C21 witness: a request answered 200 whose news record was written for
\* one owner while the reviewer's message names another, after the registry
\* file was replaced in between.
C21_ReportMixesVersions ==
    \E r \in Active :
        /\ PromptSent(r) /\ Done(r) /\ http_status[r] = 200
        /\ replaced = {"registry"}
        /\ llm_prompt[r].owner_name # owner_name[r]
        /\ ~PromptAgreesWithEvidence(r)

============================================================================
